---- MODULE Spec2Model ----
(***************************************************************************)
(* The unified agent workflow (UnifiedAgentWorkflow.run) and the planner   *)
(* activity, as a state machine.  The repository holds two copies of the   *)
(* workflow: unified_agent/workflow.py and src/unified_agent/workflow.py.  *)
(* Both are modelled; the variable `variant` says which one is running.    *)
(*                                                                         *)
(* Text is a sequence of symbols: "," ":" " " are the characters the code  *)
(* splits and strips on, every other symbol stands for a word without      *)
(* separator characters in it.                                             *)
(***************************************************************************)
EXTENDS Integers, Sequences, FiniteSets, TLC

VARIABLES
    variant,          \* which workflow.py is registered with the worker
    pc,               \* position of the run coroutine
    plannerAttempt,   \* attempts of unified_orchestrator_activity started
    usedFallback,     \* the planner activity returned from its except branch
    plan,             \* local `plan` of run()
    operations,       \* local `operations` of run()
    idx,              \* 1-based position of the for loop in `operations`
    results,          \* local `results` of run()
    pending,          \* handler attempts scheduled by the run and not yet resolved
    cancelRequested,  \* a cancellation of the run was delivered
    cancelStep,       \* the step that was in flight when it was delivered
    report,           \* the value returned by run()
    invoked,          \* history: the steps for which a handler attempt was started
    last              \* history: how the latest attempt of the current step ended

vars == <<variant, pc, plannerAttempt, usedFallback, plan, operations, idx,
          results, pending, cancelRequested, cancelStep, report, invoked, last>>

(***************************** bounds **************************************)
\* raw comma-separated segments in a plan text the planner may return
MaxSegs == 2
\* attempts of one read-only activity the model follows (its policy sets no limit)
MaxTries == 2

(************************ program constants ********************************)
PlannerMaxAttempts == 2
RestartMaxAttempts == 5
DefaultLines == 100

Variants == {"unified_agent", "src_unified_agent"}

(*************************** text helpers **********************************)
IsWs(c) == c = " "

\* str.lower() on the words the plans use
Lower(w) ==
    CASE w = "HEALTH" -> "health"
      [] OTHER -> w

RECURSIVE LStrip(_)
LStrip(s) == IF s # <<>> /\ IsWs(Head(s)) THEN LStrip(Tail(s)) ELSE s

RECURSIVE RStrip(_)
RStrip(s) ==
    IF s # <<>> /\ IsWs(s[Len(s)]) THEN RStrip(SubSeq(s, 1, Len(s) - 1)) ELSE s

\* str.strip()
StripNothing(s) == s
Strip(s) == RStrip(LStrip(s))

\* str.split(sep): always at least one field, empty fields are kept
RECURSIVE Split(_, _)
Split(s, sep) ==
    IF \A i \in 1..Len(s) : s[i] # sep
    THEN <<s>>
    ELSE LET i == CHOOSE k \in 1..Len(s) :
                      s[k] = sep /\ \A j \in 1..(k - 1) : s[j] # sep
         IN  <<SubSeq(s, 1, i - 1)>> \o Split(SubSeq(s, i + 1, Len(s)), sep)

RECURSIVE MapStrip(_)
MapStrip(fields) ==
    IF fields = <<>> THEN <<>>
    ELSE <<Strip(Head(fields))>> \o MapStrip(Tail(fields))

NonEmpty(s) == s # <<>>

\* operations = [op.strip() for op in plan.split(',') if op.strip()]
ParseOperationsKeepEmpty(text) == MapStrip(Split(text, ","))
ParseOperations(text) == SelectSeq(MapStrip(Split(text, ",")), NonEmpty)

(************************* plan texts **************************************)
RawSegments ==
    { <<" ">>,
      <<" ", "HEALTH", ":", "cache", " ">>,
      <<"logs", ":", "api", ":", "50">>,
      <<"logs", ":", "api", ":", "abc">>,
      <<"logs">>,
      <<"restart", ":", "cache">>,
      <<"restart">>,
      <<"weather", ":", "London">>,
      <<"weather">>,
      <<"fact", ":">>,
      <<"reboot", ":", "cache">> }

RECURSIVE JoinComma(_)
JoinComma(segs) ==
    IF segs = <<>> THEN <<>>
    ELSE IF Len(segs) = 1 THEN Head(segs)
    ELSE Head(segs) \o <<",">> \o JoinComma(Tail(segs))

\* what agent(task) may answer
PlanTexts ==
    UNION { { JoinComma(segs) : segs \in [1..n -> RawSegments] } : n \in 0..MaxSegs }

(************************** dispatcher *************************************)
\* the value of a parameter the segment does not carry
NoneParam == <<"None">>

RECURSIVE LowerText(_)
LowerText(s) == IF s = <<>> THEN <<>> ELSE <<Lower(Head(s))>> \o LowerText(Tail(s))

\* parts = op_spec.split(':'); op_type = parts[0].lower()
Parts(op_spec) == Split(op_spec, ":")
OpType(op_spec) == LowerText(Parts(op_spec)[1])
\* param1 = parts[1] if len(parts) > 1 else None   (0-based in the source)
Param1(op_spec) == IF Len(Parts(op_spec)) > 1 THEN Parts(op_spec)[2] ELSE NoneParam
Param2(op_spec) == IF Len(Parts(op_spec)) > 2 THEN Parts(op_spec)[3] ELSE NoneParam

\* truth value of an optional string: None and "" are false
TruthyNotNone(p) == p # NoneParam
Truthy(p) == p # NoneParam /\ p # <<>>

\* int(text): surrounding whitespace is accepted, anything but digits raises
IsIntText(p) == Strip(p) \in {<<"50">>}
IntOf(p) == IF Strip(p) = <<"50">> THEN 50 ELSE 0

Handlers == {"status", "health", "logs", "restart", "time", "weather", "fact"}

\* the segment's token is one the if/elif chain compares against
InCatalog(op_spec) == OpType(op_spec) \in {<<h>> : h \in Handlers}

Activity(h, arg, n) == [kind |-> "activity", handler |-> h, arg |-> arg, lines |-> n, err |-> "-"]
Unknown == [kind |-> "unknown", handler |-> "-", arg |-> NoneParam, lines |-> 0, err |-> "-"]
Raises(e) == [kind |-> "raises", handler |-> "-", arg |-> NoneParam, lines |-> 0, err |-> e]

\* the if/elif chain of run(): what one segment makes the loop body do
Route(op_spec) ==
    LET t  == OpType(op_spec)
        p1 == Param1(op_spec)
        p2 == Param2(op_spec)
    IN  IF t = <<"status">> THEN Activity("status", p1, 0)
        ELSE IF t = <<"health">> THEN Activity("health", p1, 0)
        ELSE IF t = <<"logs">> THEN
            IF Truthy(p2)
            THEN IF IsIntText(p2) THEN Activity("logs", p1, IntOf(p2))
                 ELSE Raises("ValueError")
            ELSE Activity("logs", p1, DefaultLines)
        ELSE IF t = <<"restart">> THEN Activity("restart", p1, 0)
        ELSE IF t = <<"time">> THEN Activity("time", NoneParam, 0)
        ELSE IF t = <<"weather">> /\ Truthy(p1) THEN Activity("weather", p1, 0)
        ELSE IF t = <<"fact">> /\ Truthy(p1) THEN Activity("fact", p1, 0)
        ELSE Unknown

(************************** retry policy ***********************************)
\* An attempt that ends in `outcome` may be retried by the activity's policy.
\* ApplicationError(non_retryable=True) is never retried; a plain exception
\* (DockerConnectionError) and a start_to_close timeout are.
RetryableAlways(outcome) == TRUE
Retryable(outcome) == outcome \in {"transient", "timeout"}

\* The policy leaves another attempt after `attempt` attempts of handler h.
\* Only restart in unified_agent/workflow.py passes a RetryPolicy; every other
\* call passes none and gets the default policy, which has no attempt limit.
HasBudget(v, h, attempt) ==
    IF h = "restart" /\ v = "unified_agent" THEN attempt < RestartMaxAttempts
    ELSE TRUE

\* how many attempts of handler h the model follows: for restart one more than
\* the limit unified_agent/workflow.py sets, so that a sixth attempt would show
AttemptCap(h) == IF h = "restart" THEN RestartMaxAttempts + 1 ELSE MaxTries

\* How an attempt of a handler can end without returning text.  The Docker
\* handlers re-raise DockerConnectionError (transient), turn every other
\* exception into ApplicationError(non_retryable=True) (permanent), and are
\* bounded by start_to_close_timeout (timeout).
DockerOutcomes == {"transient", "timeout", "permanent"}
\* time, weather and fact: a transient or a permanent failure, or a timeout
UtilityOutcomes == {"transient", "timeout", "permanent"}
OutcomesOf(h) ==
    IF h \in {"status", "health", "logs", "restart"} THEN DockerOutcomes
    ELSE UtilityOutcomes
Outcomes == DockerOutcomes \cup UtilityOutcomes

(************************** result texts ***********************************)
Para(k, spec, h, arg, n, e) ==
    [kind |-> k, spec |-> spec, handler |-> h, arg |-> arg, lines |-> n, err |-> e]

\* the text a handler returns for these arguments
SuccessText(act) == Para("ok", <<>>, act.handler, act.arg, act.lines, "-")
\* f"❌ Step '{op_spec}' failed: {str(e)}"
FailureText(op_spec, e) == Para("failed", op_spec, "-", NoneParam, 0, e)
\* unified_agent: f"Skipped unknown operation: {op_spec}"; src/unified_agent: str(None)
UnknownText(v, op_spec) ==
    IF v = "unified_agent" THEN Para("skipped", op_spec, "-", NoneParam, 0, "-")
    ELSE Para("none", <<>>, "-", NoneParam, 0, "-")

\* the "\n\n" that join() puts between two results
BlankLine == Para("blank", <<>>, "-", NoneParam, 0, "-")

\* "\n\n".join(results)
RECURSIVE JoinResultsReversed(_)
JoinResultsReversed(rs) ==
    IF rs = <<>> THEN <<>>
    ELSE IF Len(rs) = 1 THEN rs
    ELSE JoinResultsReversed(Tail(rs)) \o <<BlankLine, Head(rs)>>
RECURSIVE JoinResults(_)
JoinResults(rs) ==
    IF rs = <<>> THEN <<>>
    ELSE IF Len(rs) = 1 THEN rs
    ELSE <<Head(rs), BlankLine>> \o JoinResults(Tail(rs))

\* str(e) of the ActivityError the workflow sees for a final attempt outcome
ActivityErrorText(outcome) ==
    CASE outcome = "timeout" -> "activity_timed_out"
      [] outcome = "cancelled" -> "activity_cancelled"
      [] OTHER -> "activity_failed"

\* `except Exception` of the loop body: ActivityError and ValueError are
\* Exception subclasses, and so is the ActivityError of a cancelled activity
CaughtByStepOnlyValueError(e) == e = "ValueError"
CaughtByStep(e) == TRUE

(************************** planner activity *******************************)
\* unified_orchestrator_activity: where an exception is raised decides whether
\* the activity's own `except Exception` sees it.  unified_agent/workflow.py
\* imports strands and builds the Agent before its try; src/unified_agent/
\* workflow.py does both inside the try.
PlannerCatches(v, where) == where = "agent" \/ v = "src_unified_agent"

FallbackPlanFiltered == <<"status", ":", "running">>
FallbackPlan == <<"status">>

\* `result = await workflow.execute_activity(...)`: the loop body is
\* suspended while the activity it scheduled is unresolved
PcAfterScheduleNoAwait(act) == "dispatch"
PcAfterSchedule(act) == "awaiting"

(***************************** state machine *******************************)
NoLast == [outcome |-> "-", handler |-> "-", step |-> 0, attempt |-> 0]
Ended(a, o) == [outcome |-> o, handler |-> a.handler, step |-> a.step, attempt |-> a.attempt]

Init ==
    /\ variant \in Variants
    /\ pc = "planning"
    /\ plannerAttempt = 1
    /\ usedFallback = FALSE
    /\ plan = <<>>
    /\ operations = <<>>
    /\ idx = 0
    /\ results = <<>>
    /\ pending = {}
    /\ cancelRequested = FALSE
    /\ cancelStep = 0
    /\ report = <<>>
    /\ invoked = {}
    /\ last = NoLast

\* lines 91-92 / 78-79: what run() does with the planner's answer
StartPlan(text) ==
    /\ plan' = text
    /\ results' = <<>>
    /\ operations' = ParseOperations(text)
    /\ idx' = 1
    /\ pc' = "dispatch"

\* agent(task) answers; the activity returns the stripped text
PlannerReturns(text) ==
    /\ pc = "planning"
    /\ StartPlan(Strip(text))
    /\ UNCHANGED <<variant, plannerAttempt, usedFallback, pending,
                   cancelRequested, cancelStep, report, invoked, last>>

\* an exception the activity's except branch sees: it returns "status"
PlannerFallsBack(where) ==
    /\ pc = "planning"
    /\ PlannerCatches(variant, where)
    /\ StartPlan(FallbackPlan)
    /\ usedFallback' = TRUE
    /\ UNCHANGED <<variant, plannerAttempt, pending, cancelRequested,
                   cancelStep, report, invoked, last>>

\* the attempt fails as an activity: the 15 s start_to_close timeout, or an
\* exception outside the activity's try.  RetryPolicy(maximum_attempts=2);
\* after the last attempt execute_activity raises out of run().
PlannerAttemptFails(cause) ==
    /\ pc = "planning"
    /\ cause = "timeout" \/ ~PlannerCatches(variant, cause)
    /\ IF plannerAttempt < PlannerMaxAttempts
       THEN plannerAttempt' = plannerAttempt + 1 /\ UNCHANGED pc
       ELSE pc' = "failed" /\ UNCHANGED plannerAttempt
    /\ UNCHANGED <<plan, operations, idx, results, usedFallback>>
    /\ UNCHANGED <<variant, pending, cancelRequested, cancelStep, report, invoked, last>>

\* the run is cancelled while the planner activity is awaited: the
\* ActivityError is raised outside any try of run()
CancelWhilePlanning ==
    /\ pc = "planning"
    /\ cancelRequested' = TRUE
    /\ pc' = "cancelled"
    /\ UNCHANGED <<variant, plannerAttempt, usedFallback, plan, operations, idx,
                   results, pending, cancelStep, report, invoked, last>>

AttemptWithPreviousResult(i, r, n) ==
    [step |-> i, handler |-> r.handler,
     arg |-> IF i > 1 /\ results[i - 1].kind = "ok" THEN results[i - 1].arg ELSE r.arg,
     lines |-> r.lines, attempt |-> n]
Attempt(i, r, n) ==
    [step |-> i, handler |-> r.handler, arg |-> r.arg, lines |-> r.lines,
     attempt |-> n]

RecordPrepend(para) ==
    /\ results' = <<para>> \o results
    /\ idx' = idx + 1
    /\ pc' = "dispatch"
\* results.append(...) and on to the next iteration
Record(para) ==
    /\ results' = Append(results, para)
    /\ idx' = idx + 1
    /\ pc' = "dispatch"

\* one branch of the chain calls execute_activity
DispatchActivity ==
    /\ pc = "dispatch"
    /\ idx <= Len(operations)
    /\ LET r == Route(operations[idx])
       IN  /\ r.kind = "activity"
           /\ pending' = pending \cup {Attempt(idx, r, 1)}
           /\ pc' = PcAfterSchedule(r)
           /\ idx' = IF pc' = "awaiting" THEN idx ELSE idx + 1
    /\ invoked' = invoked \cup {idx}
    /\ last' = NoLast
    /\ UNCHANGED <<variant, plannerAttempt, usedFallback, plan, operations,
                   results, cancelRequested, cancelStep, report>>

\* the else branch (unified_agent) / no branch taken (src/unified_agent)
DispatchUnknown ==
    /\ pc = "dispatch"
    /\ idx <= Len(operations)
    /\ Route(operations[idx]).kind = "unknown"
    /\ last' = NoLast
    /\ Record(UnknownText(variant, operations[idx]))
    /\ UNCHANGED <<variant, plannerAttempt, usedFallback, plan, operations,
                   pending, cancelRequested, cancelStep, report, invoked>>

\* int(param2) raises inside the try
DispatchRaises ==
    /\ pc = "dispatch"
    /\ idx <= Len(operations)
    /\ LET r == Route(operations[idx])
       IN  /\ r.kind = "raises"
           /\ last' = NoLast
           /\ IF CaughtByStep(r.err)
              THEN Record(FailureText(operations[idx], r.err))
              ELSE pc' = "failed" /\ UNCHANGED <<results, idx>>
    /\ UNCHANGED <<variant, plannerAttempt, usedFallback, plan, operations,
                   pending, cancelRequested, cancelStep, report, invoked>>

\* the handler returns its text
AttemptSucceeds ==
    /\ pc = "awaiting"
    /\ \E a \in pending :
        /\ a.step = idx
        /\ pending' = pending \ {a}
        /\ last' = Ended(a, "ok")
        /\ Record(SuccessText(a))
    /\ UNCHANGED <<variant, plannerAttempt, usedFallback, plan, operations,
                   cancelRequested, cancelStep, report, invoked>>

\* execute_activity raises ActivityError into the loop body
StepRaises(e) ==
    IF CaughtByStep(e)
    THEN Record(FailureText(operations[idx], e))
    ELSE pc' = "failed" /\ UNCHANGED <<results, idx>>

\* the attempt ends in `outcome` and the policy schedules another attempt
AttemptRetried(outcome) ==
    /\ pc = "awaiting"
    /\ \E a \in pending :
        /\ a.step = idx
        /\ outcome \in OutcomesOf(a.handler)
        /\ Retryable(outcome)
        /\ HasBudget(variant, a.handler, a.attempt)
        /\ a.attempt < AttemptCap(a.handler)
        /\ pending' = (pending \ {a}) \cup {[a EXCEPT !.attempt = a.attempt + 1]}
        /\ last' = Ended(a, outcome)
    /\ UNCHANGED <<variant, pc, plannerAttempt, usedFallback, plan, operations,
                   idx, results, cancelRequested, cancelStep, report, invoked>>

\* the attempt ends in `outcome` and the policy gives up
AttemptFailsFinally(outcome) ==
    /\ pc = "awaiting"
    /\ \E a \in pending :
        /\ a.step = idx
        /\ outcome \in OutcomesOf(a.handler)
        /\ ~(Retryable(outcome) /\ HasBudget(variant, a.handler, a.attempt))
        /\ pending' = pending \ {a}
        /\ last' = Ended(a, outcome)
        /\ StepRaises(ActivityErrorText(outcome))
    /\ UNCHANGED <<variant, plannerAttempt, usedFallback, plan, operations,
                   cancelRequested, cancelStep, report, invoked>>

\* the run is cancelled while a step's activity is awaited: the activity is
\* resolved as cancelled and execute_activity raises ActivityError (cause:
\* CancelledError) into the loop body
CancelWhileAwaiting ==
    /\ pc = "awaiting"
    /\ ~cancelRequested
    /\ cancelRequested' = TRUE
    /\ cancelStep' = idx
    /\ \E a \in pending :
        /\ a.step = idx
        /\ pending' = pending \ {a}
        /\ last' = Ended(a, "cancelled")
    /\ IF CaughtByStep(ActivityErrorText("cancelled"))
       THEN Record(FailureText(operations[idx], ActivityErrorText("cancelled")))
       ELSE pc' = "cancelled" /\ UNCHANGED <<results, idx>>
    /\ UNCHANGED <<variant, plannerAttempt, usedFallback, plan, operations, report,
                   invoked>>

\* the loop is over: return "\n\n".join(results)
Finish ==
    /\ pc = "dispatch"
    /\ idx > Len(operations)
    /\ pending = {}
    /\ report' = JoinResults(results)
    /\ pc' = "completed"
    /\ last' = NoLast
    /\ UNCHANGED <<variant, plannerAttempt, usedFallback, plan, operations, idx,
                   results, pending, cancelRequested, cancelStep, invoked>>

Next ==
    \/ \E text \in PlanTexts : PlannerReturns(text)
    \/ \E where \in {"setup", "agent"} : PlannerFallsBack(where)
    \/ \E cause \in {"timeout", "setup"} : PlannerAttemptFails(cause)
    \/ CancelWhilePlanning
    \/ DispatchActivity
    \/ DispatchUnknown
    \/ DispatchRaises
    \/ AttemptSucceeds
    \/ \E o \in Outcomes : AttemptRetried(o)
    \/ \E o \in Outcomes : AttemptFailsFinally(o)
    \/ CancelWhileAwaiting
    \/ Finish

Spec == Init /\ [][Next]_vars

(***************************************************************************)
(* Segments of a plan text, read off the text itself: a segment starts at  *)
(* the first non-blank symbol after a comma (or after the start) and ends  *)
(* at the last non-blank symbol before the next comma.                     *)
(***************************************************************************)
NoCommaIn(text, i, j) == \A k \in i..j : text[k] # ","

SegStarts(text) ==
    { i \in 1..Len(text) :
        /\ text[i] # "," /\ ~IsWs(text[i])
        /\ \A j \in 1..(i - 1) : NoCommaIn(text, j, i - 1) => IsWs(text[j]) }

SegCount(text) == Cardinality(SegStarts(text))

NthStart(text, n) ==
    LET starts == SegStarts(text)
    IN  CHOOSE i \in starts : Cardinality({j \in starts : j < i}) = n - 1

SegEnd(text, i) ==
    CHOOSE k \in i..Len(text) :
        /\ NoCommaIn(text, i, k) /\ ~IsWs(text[k])
        /\ \A m \in (k + 1)..Len(text) : NoCommaIn(text, i, m) => IsWs(text[m])

NthSegment(text, n) ==
    LET start == NthStart(text, n)
    IN  SubSeq(text, start, SegEnd(text, start))

\* paragraph p is what executing segment seg can put into the report
Renders(p, seg) ==
    LET r == Route(seg)
    IN  \/ /\ p.kind = "ok" /\ r.kind = "activity"
           /\ p.handler = r.handler /\ p.arg = r.arg /\ p.lines = r.lines
        \/ p.kind = "failed" /\ p.spec = seg
        \/ p.kind = "skipped" /\ p.spec = seg /\ r.kind = "unknown"
        \/ p.kind = "none" /\ r.kind = "unknown"

Completed == pc = "completed"

\* C1: when the run has completed, the number of recorded results is the
\* number of non-empty, whitespace-trimmed comma-separated segments of the
\* plan text, whatever the steps' outcomes were.
C1_OneResultPerSegment ==
    /\ Len(results) <= SegCount(plan)
    /\ Completed => Len(results) = SegCount(plan)

\* a completed run over a text of two comma-separated fields, one of them
\* blank and dropped, the other a step that failed
C1_Witness ==
    /\ Completed
    /\ Len(Split(plan, ",")) = 2
    /\ Len(results) = 1
    /\ results[1].kind = "failed"

\* C2: in a completed run the report is the results joined by a blank line,
\* and its i-th paragraph renders the i-th segment of the plan text.
C2_ReportInPlanOrder ==
    Completed =>
        /\ Len(report) = IF SegCount(plan) = 0 THEN 0 ELSE 2 * SegCount(plan) - 1
        /\ \A i \in 1..SegCount(plan) :
               /\ Renders(report[2 * i - 1], NthSegment(plan, i))
               /\ i > 1 => report[2 * i - 2] = BlankLine

\* a completed run whose first step failed and whose second, different step
\* succeeded
C2_Witness ==
    /\ Completed
    /\ Len(report) = 3
    /\ report[1].kind = "failed"
    /\ report[3].kind = "ok"
    /\ NthSegment(plan, 1) # NthSegment(plan, 2)

\* C3: a failed step never aborts the run: a run-level failure arises only
\* while planning, a step that failed is followed by the next step, and a
\* completed run has executed every step after a failed one.
C3_StepFailureIsolated ==
    /\ pc = "failed" => idx = 0 /\ results = <<>>
    /\ \A i \in 1..Len(results) :
           results[i].kind = "failed" =>
               /\ pc \in {"dispatch", "awaiting", "completed"}
               /\ idx > i
               /\ Completed =>
                      \A j \in (i + 1)..Len(operations) :
                          /\ j <= Len(results)
                          /\ Route(operations[j]).kind = "activity" => j \in invoked

\* restart fails as not found, and the health handler of the next step is
\* still invoked and the run completes
C3_Witness ==
    /\ Completed
    /\ Len(results) = 2
    /\ Route(operations[1]).handler = "restart"
    /\ results[1].kind = "failed" /\ results[1].err = "activity_failed"
    /\ Route(operations[2]).handler = "health"
    /\ 2 \in invoked
    /\ results[2].kind = "ok"

\* C4: a step whose token is not in the catalog invokes no handler and is
\* recorded as a failure paragraph naming the segment, like a failed handler
\* step.
C4_UnknownIsFailure ==
    \A i \in 1..Len(results) :
        ~InCatalog(operations[i]) =>
            /\ i \notin invoked
            /\ results[i].kind = "failed"
            /\ results[i].spec = operations[i]

\* C5: the planner failing on every attempt of its budget never becomes a
\* run-level failure: the run goes on with the fallback plan.
C5_PlannerFailureFallsBack ==
    plannerAttempt = PlannerMaxAttempts => pc # "failed"

\* C6: after a cancellation delivered while step i was in flight, no handler
\* of a later step is invoked.
C6_CancelStopsRun ==
    (cancelRequested /\ cancelStep > 0) =>
        /\ \A s \in invoked : s <= cancelStep
        /\ \A a \in pending : a.step <= cancelStep

\* C7: steps run one at a time: at most one handler attempt is unresolved,
\* it belongs to the step right after the recorded results, and the run does
\* nothing else while it is unresolved.
C7_Sequential ==
    /\ Cardinality(pending) <= 1
    /\ \A a \in pending : a.step = Len(results) + 1 /\ a.step = idx
    /\ pending # {} => pc = "awaiting"
    /\ \A s \in invoked : s <= Len(results) + 1

\* the second step is being retried while the first step's result is recorded
C7_Witness ==
    /\ Len(results) = 1
    /\ \E a \in pending : a.step = 2 /\ a.attempt >= 2

\* C8: the restart handler is attempted at most 5 times for a step.
C8_RestartAtMostFive ==
    /\ \A a \in pending : a.handler = "restart" => a.attempt <= RestartMaxAttempts
    /\ last.handler = "restart" => last.attempt <= RestartMaxAttempts

\* C9: a status, health, logs, time, weather or fact handler is attempted at
\* most once for a step.
C9_ReadOnlyAtMostOnce ==
    \A a \in pending :
        a.handler \in {"status", "health", "logs", "time", "weather", "fact"}
            => a.attempt <= 1

\* C10: an attempt that ends in a permanent failure ends the step: no further
\* attempt is scheduled and the step is recorded as a failure.
C10_PermanentEndsStep ==
    last.outcome = "permanent" =>
        /\ pending = {}
        /\ pc = "dispatch"
        /\ idx = last.step + 1
        /\ Len(results) = last.step
        /\ results[last.step].kind = "failed"
        /\ results[last.step].spec = operations[last.step]

\* restart with RetryPolicy(maximum_attempts=5) fails permanently on its
\* second attempt, three attempts of budget left
C10_Witness ==
    /\ variant = "unified_agent"
    /\ last.outcome = "permanent"
    /\ last.handler = "restart"
    /\ last.attempt = 2
    /\ results[last.step].kind = "failed"

\* C11: a logs step invokes the logs handler with the line count of its
\* second parameter when that parses as an integer and with 100 otherwise;
\* an unparseable line count never keeps the handler from being invoked.
C11_LogsLineCount ==
    /\ \A a \in pending :
           a.handler = "logs" =>
               LET p2 == Param2(NthSegment(plan, a.step))
               IN  a.lines = IF IsIntText(p2) THEN IntOf(p2) ELSE DefaultLines
    /\ \A i \in 1..Len(results) :
           OpType(NthSegment(plan, i)) = <<"logs">> => i \in invoked

(***************************************************************************)
(* Liveness.  The model stops counting the attempts of an activity at      *)
(* AttemptCap; a policy without attempt limit goes on retrying there.      *)
(***************************************************************************)
\* an attempt at the cap ends in `outcome` and the policy schedules another
AttemptRetriedAtCap(outcome) ==
    /\ pc = "awaiting"
    /\ \E a \in pending :
        /\ a.step = idx
        /\ outcome \in OutcomesOf(a.handler)
        /\ Retryable(outcome)
        /\ HasBudget(variant, a.handler, a.attempt)
        /\ a.attempt = AttemptCap(a.handler)
        /\ last' = Ended(a, outcome)
    /\ UNCHANGED <<variant, pc, plannerAttempt, usedFallback, plan, operations,
                   idx, results, pending, cancelRequested, cancelStep, report,
                   invoked>>

PlannerResolves ==
    \/ \E text \in PlanTexts : PlannerReturns(text)
    \/ \E where \in {"setup", "agent"} : PlannerFallsBack(where)
    \/ \E cause \in {"timeout", "setup"} : PlannerAttemptFails(cause)

RunAdvances == DispatchActivity \/ DispatchUnknown \/ DispatchRaises \/ Finish

AttemptResolves ==
    \/ AttemptSucceeds
    \/ \E o \in Outcomes : AttemptRetried(o)
    \/ \E o \in Outcomes : AttemptFailsFinally(o)
    \/ \E o \in Outcomes : AttemptRetriedAtCap(o)

NextLive == Next \/ \E o \in Outcomes : AttemptRetriedAtCap(o)

\* the planner call and every handler attempt resolve, and the run coroutine
\* is resumed whenever it can go on
LiveSpec ==
    /\ Init /\ [][NextLive]_vars
    /\ WF_vars(PlannerResolves)
    /\ WF_vars(RunAdvances)
    /\ WF_vars(AttemptResolves)

\* C12: once the plan is there, the run eventually completes with a report,
\* whatever way each attempt of each step resolves; no step retries forever.
C12_RunCompletes == (pc = "dispatch") ~> Completed

\* C13: when the plan text has no non-blank segment, no handler is invoked,
\* nothing is recorded, the run does not fail, and the report of the
\* completed run is the empty text.
C13_EmptyPlanEmptyReport ==
    (pc \notin {"planning", "failed", "cancelled"} /\ SegStarts(plan) = {}) =>
        /\ invoked = {}
        /\ pending = {}
        /\ results = <<>>
        /\ pc \in {"dispatch", "completed"}
        /\ Completed => report = <<>>

\* a completed run over a plan text made of two blank fields
C13_Witness ==
    /\ Completed
    /\ Len(Split(plan, ",")) = 2
    /\ SegStarts(plan) = {}
    /\ report = <<>>

\* C14: a restart or logs step without a container name is treated as
\* unrecognized: its handler is not invoked, never with an absent container
\* name, and the step is recorded as a failure.
C14_MissingContainerNotInvoked ==
    /\ \A a \in pending :
           a.handler \in {"restart", "logs"} => a.arg # NoneParam
    /\ \A i \in 1..Len(results) :
           LET seg == NthSegment(plan, i)
           IN  (OpType(seg) \in {<<"restart">>, <<"logs">>} /\ Len(Parts(seg)) < 2)
                   => i \notin invoked /\ results[i].kind # "ok"

\* the parameter of segment seg is absent or empty
NoParam1(seg) == Len(Parts(seg)) < 2 \/ Parts(seg)[2] = <<>>

\* C15: a weather or fact step without a (non-empty) parameter invokes no
\* handler, gets no default parameter, and is recorded exactly as a token
\* that is not in the catalog is recorded.
C15_MissingParamIsUnknown ==
    /\ \A a \in pending :
           a.handler \in {"weather", "fact"} => a.arg \notin {NoneParam, <<>>}
    /\ \A i \in 1..Len(results) :
           LET seg == NthSegment(plan, i)
           IN  (OpType(seg) \in {<<"weather">>, <<"fact">>} /\ NoParam1(seg))
                   => /\ i \notin invoked
                      /\ results[i] = UnknownText(variant, seg)

\* "reboot:cache, weather": the token outside the catalog and the weather
\* step without a city are recorded the same way
C15_Witness ==
    /\ Len(results) = 2
    /\ ~InCatalog(NthSegment(plan, 1))
    /\ NthSegment(plan, 2) = <<"weather">>
    /\ results[1].kind = results[2].kind
    /\ results[2].kind \in {"skipped", "none"}
    /\ invoked = {}

\* C16: a run on the fallback plan executes exactly one step, a status query
\* without filter, and never invokes the restart handler.
C16_FallbackIsSingleStatus ==
    usedFallback =>
        /\ Len(operations) = 1
        /\ invoked \subseteq {1}
        /\ \A a \in pending :
               a.step = 1 /\ a.handler = "status" /\ a.arg = NoneParam
        /\ \A i \in 1..Len(results) :
               results[i].kind = "ok" =>
                   results[i].handler = "status" /\ results[i].arg = NoneParam
        /\ Completed => invoked = {1} /\ Len(results) = 1

\* the planner fell back after its agent call raised, and the single status
\* step succeeded
C16_Witness ==
    /\ usedFallback
    /\ Completed
    /\ Len(report) = 1
    /\ report[1].kind = "ok"
    /\ report[1].handler = "status"

\* C17: the handler a step invokes and the parameters it passes are a function
\* of the step's segment of the plan text alone: every attempt of step i, first
\* or retried, calls what the dispatcher makes of the i-th segment, whatever
\* the earlier steps returned.  (Two runs on the same plan text then agree on
\* every call, which is the claim.)
C17_CallDependsOnSegmentOnly ==
    \A a \in pending :
        LET r == Route(NthSegment(plan, a.step))
        IN  /\ r.kind = "activity"
            /\ a.handler = r.handler
            /\ a.arg = r.arg
            /\ a.lines = r.lines

\* the first step returned a text, and the second step calls another handler
\* with another parameter
C17_Witness ==
    /\ Len(results) = 1
    /\ results[1].kind = "ok"
    /\ \E a \in pending :
           /\ a.step = 2
           /\ a.handler # results[1].handler
           /\ a.arg # results[1].arg

\* C18: results is append-only: every step of the run leaves it as it is or
\* adds exactly one entry at its end; no entry is changed, moved or dropped.
C18_ResultsAppendOnly ==
    [][ \/ results' = results
        \/ /\ Len(results') = Len(results) + 1
           /\ SubSeq(results', 1, Len(results)) = results ]_vars

\* the first step's text is recorded, and the second step was retried and
\* then recorded as a failure behind it
C18_Witness ==
    /\ Len(results) = 2
    /\ results[1].kind = "ok"
    /\ results[2].kind = "failed"
    /\ last.step = 2
    /\ last.attempt >= 2

\* the attempt budget the catalog gives a handler
CatalogBudget(h) == IF h = "restart" THEN RestartMaxAttempts ELSE 1

\* C19: an attempt that times out uses up one attempt of the step's budget
\* like a transient failure: it is retried while budget remains (restart: up
\* to 5 attempts in all), and with the budget used up the step is recorded
\* as a failure and the run moves on.
C19_TimeoutLikeTransient ==
    /\ Retryable("timeout") = Retryable("transient")
    /\ last.outcome = "timeout" =>
           IF last.attempt < CatalogBudget(last.handler)
           THEN pc = "awaiting" /\ \E a \in pending : a.attempt = last.attempt + 1
           ELSE /\ last.attempt = CatalogBudget(last.handler)
                /\ pending = {}
                /\ pc = "dispatch"
                /\ results[last.step].kind = "failed"

====
